---- MODULE Spec2Model ----
(***************************************************************************)
(* Model of the two text transformations of the PSP Sphinx extensions:    *)
(*   PSPParser._process_psp_preamble  (parsing/psp_parser.py)              *)
(*   PSPRole.process_link             (parsing/psp_role.py)                *)
(* and of the build script (build.py), which runs Sphinx over the source   *)
(* directory and then calls create_index_file on the output directory.     *)
(* A Python str is a sequence of one-character strings.  A character that *)
(* is not ASCII is written as a token: "SUP2" is U+00B2 SUPERSCRIPT TWO.  *)
(***************************************************************************)
EXTENDS Integers, Sequences, FiniteSets, TLC

VARIABLES call, pc, text, result, result2,
          has_explicit_title, title, target, link,
          builder, sources, outdir

vars == <<call, pc, text, result, result2, has_explicit_title, title, target, link,
          builder, sources, outdir>>

(* ------------------------------ bounds --------------------------------- *)

MaxTextLen == 5

MaxTargetLen == 7

TextChars == {"a", ":", " ", "\t", "\n"}

TargetChars == {"0", "7", "a", "SUP2"}

Titles == {<<"t">>}

StringsOver(chars, n) == UNION {[1..k -> chars] : k \in 0..n}

Texts == StringsOver(TextChars, MaxTextLen)

Targets == StringsOver(TargetChars, MaxTargetLen)

(* --------------------------- str primitives ---------------------------- *)

\* the characters str.strip() removes, among those modelled
Whitespace == {" ", "\t", "\n"}

\* the positions of the line separators of a str
Newlines(s) == {i \in 1..Len(s) : s[i] = "\n"}

\* text.split('\n'): the pieces between consecutive separators, one more
\* piece than there are separators
SplitLines(s) ==
    LET nl     == Newlines(s)
        sep(j) == IF j = 0 THEN 0
                  ELSE IF j > Cardinality(nl) THEN Len(s) + 1
                  ELSE CHOOSE p \in nl : Cardinality({q \in nl : q < p}) = j - 1
    IN [j \in 1..(Cardinality(nl) + 1) |-> SubSeq(s, sep(j - 1) + 1, sep(j) - 1)]

RECURSIVE JoinLines(_)
\* '\n'.join(lines)
JoinLines(ls) ==
    IF Len(ls) = 0 THEN <<>>
    ELSE IF Len(ls) = 1 THEN ls[1]
    ELSE ls[1] \o <<"\n">> \o JoinLines(Tail(ls))

RECURSIVE LStrip(_)
LStrip(s) ==
    IF Len(s) > 0 /\ s[1] \in Whitespace THEN LStrip(Tail(s)) ELSE s

RECURSIVE RStrip(_)
RStrip(s) ==
    IF Len(s) > 0 /\ s[Len(s)] \in Whitespace THEN RStrip(SubSeq(s, 1, Len(s) - 1)) ELSE s

\* line.strip()
Strip(s) == RStrip(LStrip(s))

\* ':' in line
HasColon(line) == \E i \in 1..Len(line) : line[i] = ":"

\* line.startswith(' ')
StartsWithSpace(line) == Len(line) > 0 /\ line[1] = " "

\* line.strip() == ''
IsBlank(line) == Strip(line) = <<>>

\* elif ':' in line and not line.startswith(' ')
IsField(line) == HasColon(line) /\ ~StartsWithSpace(line)

\* index of the first ':' of a line that has one
FirstColon(line) == CHOOSE i \in 1..Len(line) :
    line[i] = ":" /\ \A j \in 1..(i - 1) : line[j] # ":"

\* index of the last ':' of a line that has one
LastColon(line) == CHOOSE i \in 1..Len(line) :
    line[i] = ":" /\ \A j \in (i + 1)..Len(line) : line[j] # ":"

\* SplitField as line.rsplit(':', 1) would make it
SplitFieldAtLastColon(line) ==
    LET c == LastColon(line)
    IN [field |-> Strip(SubSeq(line, 1, c - 1)),
        value |-> Strip(SubSeq(line, c + 1, Len(line)))]

\* line.split(':', 1) followed by the two strip() calls
SplitField(line) ==
    LET c == FirstColon(line)
    IN [field |-> Strip(SubSeq(line, 1, c - 1)),
        value |-> Strip(SubSeq(line, c + 1, Len(line)))]

(* --------------------------- markup literals --------------------------- *)

RawDirective ==
    <<".", ".", " ", "r", "a", "w", ":", ":", " ", "h", "t", "m", "l">>

DivOpen ==
    <<" ", " ", " ", "<", "d", "i", "v", " ", "c", "l", "a", "s", "s", "=", "\"", "p",
      "s", "p", "-", "p", "r", "e", "a", "m", "b", "l", "e", "-", "t", "a", "b", "l",
      "e", "\"", ">">>

TableOpen ==
    <<" ", " ", " ", "<", "t", "a", "b", "l", "e", " ", "c", "l", "a", "s", "s", "=",
      "\"", "p", "s", "p", "-", "p", "r", "e", "a", "m", "b", "l", "e", "\"", ">">>

RowPrefix ==
    <<" ", " ", " ", "<", "t", "r", ">", "<", "t", "d", " ", "c", "l", "a", "s", "s",
      "=", "\"", "p", "s", "p", "-", "f", "i", "e", "l", "d", "\"", ">">>

RowMiddle ==
    <<":", "<", "/", "t", "d", ">", "<", "t", "d", " ", "c", "l", "a", "s", "s", "=",
      "\"", "p", "s", "p", "-", "v", "a", "l", "u", "e", "\"", ">">>

RowSuffix ==
    <<"<", "/", "t", "d", ">", "<", "/", "t", "r", ">">>

TableClose ==
    <<" ", " ", " ", "<", "/", "t", "a", "b", "l", "e", ">">>

DivClose ==
    <<" ", " ", " ", "<", "/", "d", "i", "v", ">">>

\* the f-string of one table row
FormatRow(field, value) == RowPrefix \o field \o RowMiddle \o value \o RowSuffix

(* ----------------------- _process_psp_preamble ------------------------- *)

RECURSIVE ScanPreamble(_, _, _)
\* the for loop over enumerate(lines); i is the Python (0-based) index
ScanPreamble(lines, i, preamble_lines) ==
    IF i >= Len(lines)
    THEN [exit |-> "exhausted", preamble_lines |-> preamble_lines, preamble_end |-> 0]
    ELSE LET line == lines[i + 1]
         IN IF IsBlank(line)
            THEN [exit |-> "break", preamble_lines |-> preamble_lines, preamble_end |-> i]
            ELSE IF IsField(line)
            THEN ScanPreamble(lines, i + 1, Append(preamble_lines, line))
            ELSE [exit |-> "return", preamble_lines |-> preamble_lines, preamble_end |-> 0]

RECURSIVE FormatRows(_)
\* the second for loop: one row per preamble line that passes its guard
FormatRows(preamble_lines) ==
    IF Len(preamble_lines) = 0 THEN <<>>
    ELSE LET line == preamble_lines[1]
             rest == FormatRows(Tail(preamble_lines))
         IN IF HasColon(line) /\ Strip(line) # <<>>
            THEN <<FormatRow(SplitField(line).field, SplitField(line).value)>> \o rest
            ELSE rest

\* ContentLines as lines[preamble_end + 1:] would make it
ContentLinesAfterBlank(lines, preamble_end) == SubSeq(lines, preamble_end + 2, Len(lines))

\* lines[preamble_end:]
ContentLines(lines, preamble_end) == SubSeq(lines, preamble_end + 1, Len(lines))

FormattedPreamble(preamble_lines) ==
    <<RawDirective, <<>>, DivOpen, TableOpen>>
        \o FormatRows(preamble_lines)
        \o <<TableClose, DivClose, <<>> >>

\* whether both early returns are passed: no line aborted the scan and at
\* least one field was collected
EmitsTable(s) ==
    LET scan == ScanPreamble(SplitLines(s), 0, <<>>)
    IN scan.exit # "return" /\ Len(scan.preamble_lines) > 0

process_psp_preamble(s) ==
    LET lines == SplitLines(s)
        scan  == ScanPreamble(lines, 0, <<>>)
    IN IF ~EmitsTable(s) THEN s
       ELSE JoinLines(FormattedPreamble(scan.preamble_lines)
                        \o ContentLines(lines, scan.preamble_end))

(* ------------------------------ process_link --------------------------- *)

\* characters for which str.isdigit() is true: the decimal digits and the
\* digits that are not decimal (superscripts and the like)
DecimalChars == {"0", "1", "2", "3", "4", "5", "6", "7", "8", "9"}

DigitChars == DecimalChars \cup {"SUP2"}

\* target.isdigit()
IsDigit(s) == Len(s) > 0 /\ \A i \in 1..Len(s) : s[i] \in DigitChars

\* target.startswith('0')
StartsWithZero(s) == Len(s) > 0 /\ s[1] = "0"

DigitValue(c) == CHOOSE d \in 0..9 : <<"0", "1", "2", "3", "4", "5", "6", "7", "8", "9">>[d + 1] = c

\* int(target) raises ValueError on a character that is not a decimal digit
IntRaises(s) == \E i \in 1..Len(s) : s[i] \notin DecimalChars

RECURSIVE IntOf(_)
\* int(target), for a str of decimal digits
IntOf(s) ==
    IF Len(s) = 0 THEN 0
    ELSE 10 * IntOf(SubSeq(s, 1, Len(s) - 1)) + DigitValue(s[Len(s)])

RECURSIVE Decimal(_)
\* f"{psp_num}"
Decimal(n) ==
    LET d == <<"0", "1", "2", "3", "4", "5", "6", "7", "8", "9">>[(n % 10) + 1]
    IN IF n < 10 THEN <<d>> ELSE Append(Decimal(n \div 10), d)

RECURSIVE ZeroPad(_, _)
ZeroPad(s, width) == IF Len(s) >= width THEN s ELSE ZeroPad(<<"0">> \o s, width)

PadWidth == 6

\* Decimal06 as the four-digit format "{:0>4}" would make it
Decimal04(n) == ZeroPad(Decimal(n), PadWidth - 2)

\* f"{psp_num:06d}"
Decimal06(n) == ZeroPad(Decimal(n), PadWidth)

TitlePrefix == <<"P", "S", "P", " ">>

TargetPrefix == <<"p", "s", "p", "-">>

\* the value that stands for "no value returned" when the call raised
NoValue == <<"<raised>">>

\* the body shared by the two branches
Convert(branch, t) ==
    IF IntRaises(t)
    THEN [raised |-> TRUE, title |-> NoValue, target |-> NoValue, branch |-> branch]
    ELSE [raised |-> FALSE,
          title  |-> TitlePrefix \o Decimal(IntOf(t)),
          target |-> TargetPrefix \o Decimal06(IntOf(t)),
          branch |-> branch]

\* FirstGuard as a test that leaves zero-padded numbers to the second branch
FirstGuardUnpadded(t) == IsDigit(t) /\ ~StartsWithZero(t)

\* if target.isdigit():
FirstGuard(t) == IsDigit(t)

\* elif target.startswith('0') and target.isdigit():
SecondGuard(t) == StartsWithZero(t) /\ IsDigit(t)

process_link(explicit, ti, t) ==
    IF ~explicit
    THEN IF FirstGuard(t) THEN Convert("first", t)
         ELSE IF SecondGuard(t) THEN Convert("second", t)
         ELSE [raised |-> FALSE, title |-> ti, target |-> t, branch |-> "none"]
    ELSE [raised |-> FALSE, title |-> ti, target |-> t, branch |-> "explicit"]

(* ------------------------------- build.py ------------------------------ *)

\* file names of the source directory that a run may hold
ContentsRst == <<"c", "o", "n", "t", "e", "n", "t", "s", ".", "r", "s", "t">>

Psp000000Rst == <<"p", "s", "p", "-", "0", "0", "0", "0", "0", "0", ".", "r", "s", "t">>

Psp000001Rst == <<"p", "s", "p", "-", "0", "0", "0", "0", "0", "1", ".", "r", "s", "t">>

Psp0000Rst == <<"p", "s", "p", "-", "0", "0", "0", "0", ".", "r", "s", "t">>

PspTemplateRst == <<"p", "s", "p", "-", "t", "e", "m", "p", "l", "a", "t", "e", ".", "r", "s", "t">>

\* conf.py: include_patterns and exclude_patterns
IncludePatterns ==
    { <<"c", "o", "n", "t", "e", "n", "t", "s", ".", "r", "s", "t">>,
      <<"p", "s", "p", "-", "?", "?", "?", "?", "?", "?", ".", "r", "s", "t">>,
      <<"p", "s", "p", "-", "?", "?", "?", "?", "?", "?", "/", "*", ".", "r", "s", "t">> }

ExcludePatterns == { <<"p", "s", "p", "-", "t", "e", "m", "p", "l", "a", "t", "e", ".", "r", "s", "t">> }

RECURSIVE GlobMatch(_, _)
\* Sphinx's pattern matching: '?' is one character other than '/', '*' is
\* any run of characters other than '/', any other character is itself
GlobMatch(pat, name) ==
    IF Len(pat) = 0 THEN Len(name) = 0
    ELSE IF pat[1] = "*"
    THEN \/ GlobMatch(Tail(pat), name)
         \/ Len(name) > 0 /\ name[1] # "/" /\ GlobMatch(pat, Tail(name))
    ELSE /\ Len(name) > 0
         /\ IF pat[1] = "?" THEN name[1] # "/" ELSE name[1] = pat[1]
         /\ GlobMatch(Tail(pat), Tail(name))

\* a source file Sphinx reads: included, not excluded
Admitted(name) ==
    /\ \E pat \in IncludePatterns : GlobMatch(pat, name)
    /\ ~\E pat \in ExcludePatterns : GlobMatch(pat, name)

RstSuffix == <<".", "r", "s", "t">>

\* the document name of a source file: its name without the .rst suffix
Docname(name) == SubSeq(name, 1, Len(name) - Len(RstSuffix))

IndexHtml == <<"i", "n", "d", "e", "x", ".", "h", "t", "m", "l">>

\* the file a builder writes for a document
OutputFile(b, docname) ==
    IF b = "dirhtml" THEN docname \o <<"/">> \o IndexHtml
    ELSE IF b = "html" THEN docname \o <<".", "h", "t", "m", "l">>
    ELSE docname \o <<".", "t", "e", "x">>

\* the text of the page a builder renders from a document
Rendered(b, docname) == <<"rendered", b, docname>>

\* the documents a builder writes: the html builders write every document
\* read, the latex builder the PSPs listed in latex_documents
Written(b, srcs) ==
    {Docname(f) : f \in {g \in srcs : Admitted(g) /\ (b = "latex" => g # ContentsRst)}}

\* app.build(): the output directory after the build; files of earlier
\* builds that this build does not write stay as they are
SphinxBuild(b, srcs, out) ==
    LET docs  == Written(b, srcs)
        files == {OutputFile(b, d) : d \in docs}
    IN [f \in (DOMAIN out) \cup files |->
           IF f \in files
           THEN Rendered(b, CHOOSE d \in docs : OutputFile(b, d) = f)
           ELSE out[f]]

\* create_index_file: psp_zero_file, relative to html_root
PspZeroFile(b) ==
    IF b = "dirhtml"
    THEN <<"p", "s", "p", "-", "0", "0", "0", "0">> \o <<"/">> \o IndexHtml
    ELSE <<"p", "s", "p", "-", "0", "0", "0", "0", ".", "h", "t", "m", "l">>

\* create_index_file(html_root, builder)
create_index_file(out, b) ==
    IF PspZeroFile(b) \in DOMAIN out
    THEN [f \in (DOMAIN out) \cup {IndexHtml} |->
             IF f = IndexHtml THEN out[PspZeroFile(b)] ELSE out[f]]
    ELSE out

\* the builders the script is run with (-b)
Builders == {"html", "dirhtml", "latex"}

\* the source directory: contents.rst and any of the other files
SourceDirs ==
    {{ContentsRst} \cup fs : fs \in SUBSET {Psp000000Rst, Psp000001Rst, Psp0000Rst, PspTemplateRst}}

\* what an earlier build may have left in the output directory
StaleText == <<"stale">>

OutDirs ==
    {[f \in fs |-> StaleText] :
        fs \in SUBSET {IndexHtml, PspZeroFile("html"), PspZeroFile("dirhtml")}}

NoOutDir == [f \in {} |-> StaleText]

(* ------------------------------ state machine -------------------------- *)

NoLink == [raised |-> FALSE, title |-> <<>>, target |-> <<>>, branch |-> "none"]

Init ==
    /\ pc = "start"
    /\ result = <<>>
    /\ result2 = <<>>
    /\ link = NoLink
    /\ \/ /\ call = "parse"
          /\ text \in Texts
          /\ has_explicit_title = FALSE
          /\ title = <<>>
          /\ target = <<>>
          /\ builder = "html"
          /\ sources = {}
          /\ outdir = NoOutDir
       \/ /\ call = "link"
          /\ text = <<>>
          /\ has_explicit_title \in BOOLEAN
          /\ title \in Titles
          /\ target \in Targets
          /\ builder = "html"
          /\ sources = {}
          /\ outdir = NoOutDir
       \/ /\ call = "build"
          /\ text = <<>>
          /\ has_explicit_title = FALSE
          /\ title = <<>>
          /\ target = <<>>
          /\ builder \in Builders
          /\ sources \in SourceDirs
          /\ outdir \in OutDirs

\* PSPParser.parse hands the text to _process_psp_preamble
Parse ==
    /\ call = "parse"
    /\ pc = "start"
    /\ result' = process_psp_preamble(text)
    /\ pc' = "parsed"
    /\ UNCHANGED <<call, text, result2, has_explicit_title, title, target, link,
                   builder, sources, outdir>>

\* the reformatter applied to its own output
Reparse ==
    /\ call = "parse"
    /\ pc = "parsed"
    /\ result2' = process_psp_preamble(result)
    /\ pc' = "reparsed"
    /\ UNCHANGED <<call, text, result, has_explicit_title, title, target, link,
                   builder, sources, outdir>>

\* XRefRole calls process_link with the role's title and target
ProcessLink ==
    /\ call = "link"
    /\ pc = "start"
    /\ link' = process_link(has_explicit_title, title, target)
    /\ pc' = "linked"
    /\ UNCHANGED <<call, text, result, result2, has_explicit_title, title, target,
                   builder, sources, outdir>>

\* build.py: app = Sphinx(...); app.build()
Build ==
    /\ call = "build"
    /\ pc = "start"
    /\ outdir' = SphinxBuild(builder, sources, outdir)
    /\ pc' = "built"
    /\ UNCHANGED <<call, text, result, result2, has_explicit_title, title, target, link,
                   builder, sources>>

\* build.py: if sphinx_builder in ["html", "dirhtml"]: create_index_file(...)
CreateIndex ==
    /\ call = "build"
    /\ pc = "built"
    /\ builder \in {"html", "dirhtml"}
    /\ outdir' = create_index_file(outdir, builder)
    /\ pc' = "done"
    /\ UNCHANGED <<call, text, result, result2, has_explicit_title, title, target, link,
                   builder, sources>>

\* build.py: any other builder ends the script after app.build()
SkipIndex ==
    /\ call = "build"
    /\ pc = "built"
    /\ builder \notin {"html", "dirhtml"}
    /\ pc' = "done"
    /\ UNCHANGED <<call, text, result, result2, has_explicit_title, title, target, link,
                   builder, sources, outdir>>

Next == Parse \/ Reparse \/ ProcessLink \/ Build \/ CreateIndex \/ SkipIndex

Spec == Init /\ [][Next]_vars

(* ----------------------- vocabulary of the claims ---------------------- *)

\* a line that starts with a space or with another indentation character
Indented(line) == Len(line) > 0 /\ line[1] \in {" ", "\t"}

\* the number of lines that precede the first blank line (all of them when
\* no line is blank)
LinesBeforeBlank(lines) ==
    IF \E i \in 1..Len(lines) : IsBlank(lines[i])
    THEN (CHOOSE i \in 1..Len(lines) :
            IsBlank(lines[i]) /\ \A j \in 1..(i - 1) : ~IsBlank(lines[j])) - 1
    ELSE Len(lines)

\* a colon-bearing unindented line
FieldLine(line) == HasColon(line) /\ ~Indented(line)

\* some line before the first blank line lacks a colon or is indented
HasNonFieldLine(s) ==
    LET lines == SplitLines(s)
    IN \E i \in 1..LinesBeforeBlank(lines) : ~FieldLine(lines[i])

\* no line before the first blank line is a colon-bearing unindented line
HasNoFieldLine(s) ==
    LET lines == SplitLines(s)
    IN \A i \in 1..LinesBeforeBlank(lines) : ~FieldLine(lines[i])

\* every line before the first blank line is a field line, and there is one
WellFormed(s) ==
    LET lines == SplitLines(s)
    IN /\ LinesBeforeBlank(lines) >= 1
       /\ \A i \in 1..LinesBeforeBlank(lines) : FieldLine(lines[i])

\* the text of a line before its first colon and after it
NameOf(line) ==
    LET c == CHOOSE i \in 1..Len(line) : line[i] = ":" /\ \A j \in 1..(i - 1) : line[j] # ":"
    IN Strip(SubSeq(line, 1, c - 1))

ValueOf(line) ==
    LET c == CHOOSE i \in 1..Len(line) : line[i] = ":" /\ \A j \in 1..(i - 1) : line[j] # ":"
    IN Strip(SubSeq(line, c + 1, Len(line)))

ColonCount(line) == Cardinality({i \in 1..Len(line) : line[i] = ":"})

\* a str of decimal digits: a textual form of a non-negative integer
AllDecimal(s) == Len(s) > 0 /\ \A i \in 1..Len(s) : s[i] \in DecimalChars

RECURSIVE Unpadded(_)
\* a digit str without its leading zeros: the decimal form of its number
Unpadded(s) == IF Len(s) > 1 /\ s[1] = "0" THEN Unpadded(Tail(s)) ELSE s

RECURSIVE ZeroFill6(_)
ZeroFill6(s) == IF Len(s) >= 6 THEN s ELSE ZeroFill6(<<"0">> \o s)

\* process_link with the second branch removed
process_link_one_branch(explicit, ti, t) ==
    IF ~explicit /\ FirstGuard(t) THEN Convert("first", t)
    ELSE [raised |-> FALSE, title |-> ti, target |-> t,
          branch |-> IF explicit THEN "explicit" ELSE "none"]

(* --------------------------------- C1 ---------------------------------- *)

\* C1 as stated: applying the reformatter to its own output changes nothing,
\* reformat(reformat(s)) = reformat(s), also when a table was emitted.
C1_Idempotent == pc = "reparsed" => result2 = result

\* C1 amended: the second application changes nothing exactly when no table
\* was emitted; when one was, the directive line ".. raw:: html" is read as
\* a field and the first output, from its blank second line on, follows a
\* new table whose only row is (".. raw:", ": html").
C1_IdempotentIffNoTable ==
    pc = "reparsed" =>
        /\ ~EmitsTable(text) => result = text /\ result2 = result
        /\ EmitsTable(text) =>
              /\ result2 # result
              /\ result2 = JoinLines(
                    <<RawDirective, <<>>, DivOpen, TableOpen,
                      RowPrefix \o <<".", ".", " ", "r", "a", "w">> \o RowMiddle
                          \o <<":", " ", "h", "t", "m", "l">> \o RowSuffix,
                      TableClose, DivClose, <<>> >>
                    \o Tail(SplitLines(result)))

C1_Witness == pc = "reparsed" /\ EmitsTable(text) /\ LinesBeforeBlank(SplitLines(text)) = 2

(* --------------------------------- C2 ---------------------------------- *)

\* C2 as stated: a text with a line before its first blank line that lacks a
\* colon or starts with a space or a tab is returned unchanged.
C2_AllOrNothing == pc = "parsed" /\ HasNonFieldLine(text) => result = text

\* the case C2 fails on: a tab-indented line that bears a colon
C2_Witness ==
    /\ pc = "parsed"
    /\ HasNonFieldLine(text)
    /\ \E i \in 1..LinesBeforeBlank(SplitLines(text)) :
          HasColon(SplitLines(text)[i]) /\ SplitLines(text)[i][1] = "\t"

(* --------------------------------- C3 ---------------------------------- *)

\* C3 as stated: when a table is emitted the output is the markup block
\* followed by the input lines from the boundary (the first blank line, or
\* the end of a text without one) to the end, and by nothing else.
C3_RemainderFromBoundary ==
    pc = "parsed" /\ EmitsTable(text) =>
        LET lines == SplitLines(text)
            n     == LinesBeforeBlank(lines)
        IN result = JoinLines(FormattedPreamble(SubSeq(lines, 1, n))
                                \o SubSeq(lines, n + 1, Len(lines)))

\* the case C3 fails on: a table emitted for a text without a blank line
C3_Witness ==
    /\ pc = "parsed"
    /\ EmitsTable(text)
    /\ LinesBeforeBlank(SplitLines(text)) = Len(SplitLines(text))

(* --------------------------------- C4 ---------------------------------- *)

\* C4: for a well-formed preamble of n field lines the output holds exactly
\* n table rows, in source order, and row i carries the trimmed text before
\* the first colon of field line i, then a colon, and the trimmed text after
\* that first colon.
C4_OneRowPerField ==
    pc = "parsed" /\ WellFormed(text) =>
        LET lines == SplitLines(text)
            n     == LinesBeforeBlank(lines)
            out   == SplitLines(result)
        IN /\ Len(out) >= n + 7
           /\ SubSeq(out, 1, 4) = <<RawDirective, <<>>, DivOpen, TableOpen>>
           /\ \A i \in 1..n :
                 out[4 + i] = RowPrefix \o NameOf(lines[i]) \o <<":">>
                                  \o Tail(RowMiddle) \o ValueOf(lines[i]) \o RowSuffix
           /\ SubSeq(out, n + 5, n + 7) = <<TableClose, DivClose, <<>> >>

C4_Witness ==
    /\ pc = "parsed"
    /\ WellFormed(text)
    /\ LinesBeforeBlank(SplitLines(text)) >= 2
    /\ \E i \in 1..LinesBeforeBlank(SplitLines(text)) : ColonCount(SplitLines(text)[i]) >= 2
    /\ result # text

(* --------------------------------- C5 ---------------------------------- *)

\* C5 as stated: for a target of decimal digits and no explicit title the
\* returned target is "psp-" followed by exactly six decimal digits.
C5_FixedWidth ==
    pc = "linked" /\ ~has_explicit_title /\ AllDecimal(target) =>
        /\ Len(link.target) = Len(TargetPrefix) + 6
        /\ SubSeq(link.target, 1, Len(TargetPrefix)) = TargetPrefix
        /\ \A i \in (Len(TargetPrefix) + 1)..Len(link.target) : link.target[i] \in DecimalChars

\* the case C5 fails on: a number of more than six digits
C5_Witness ==
    /\ pc = "linked"
    /\ ~has_explicit_title
    /\ AllDecimal(target)
    /\ Len(Unpadded(target)) > 6

(* --------------------------------- C6 ---------------------------------- *)

\* C6 as stated: both functions return a result for every input; process_link
\* in particular for every target its digit test accepts.
C6_Total ==
    /\ pc \in {"parsed", "reparsed"} => result \in Seq(STRING)
    /\ pc = "linked" => ~link.raised

\* the case C6 fails on: the digit test accepts a target that int() rejects
C6_Witness == pc = "linked" /\ ~has_explicit_title /\ IsDigit(target) /\ ~AllDecimal(target)

(* --------------------------------- C7 ---------------------------------- *)

\* C7: for a textual form of a non-negative integer n, with or without
\* leading zeros, and no explicit title, the result is the title "PSP " + n
\* without leading zeros and the target "psp-" + n zero-padded to six digits;
\* so the form with its leading zeros removed and the form with one more
\* leading zero give the same pair.
C7_Normalized ==
    pc = "linked" /\ ~has_explicit_title /\ AllDecimal(target) =>
        /\ ~link.raised
        /\ link.title = <<"P", "S", "P", " ">> \o Unpadded(target)
        /\ link.target = <<"p", "s", "p", "-">> \o ZeroFill6(Unpadded(target))
        /\ \A t \in {Unpadded(target), <<"0">> \o target} :
              /\ process_link(FALSE, title, t).title = link.title
              /\ process_link(FALSE, title, t).target = link.target

C7_Witness ==
    /\ pc = "linked"
    /\ ~has_explicit_title
    /\ target = <<"0", "0", "7">>
    /\ link.target = <<"p", "s", "p", "-", "0", "0", "0", "0", "0", "7">>

(* --------------------------------- C8 ---------------------------------- *)

\* C8 as stated: with an explicit title, or with a target that is not made
\* of decimal digits only, the title and the target are returned as given.
C8_IdentityOutsideDigits ==
    pc = "linked" /\ (has_explicit_title \/ ~AllDecimal(target)) =>
        /\ ~link.raised
        /\ link.title = title
        /\ link.target = target

\* the case C8 fails on: no explicit title and a target that the digit test
\* accepts although it is not made of decimal digits only
C8_Witness == pc = "linked" /\ ~has_explicit_title /\ ~AllDecimal(target) /\ IsDigit(target)

(* --------------------------------- C9 ---------------------------------- *)

\* C9 as stated: a text with no colon-bearing unindented line before its
\* first blank line is returned unchanged.
C9_NoFieldUnchanged == pc = "parsed" /\ HasNoFieldLine(text) => result = text

\* the case C9 fails on: the only colon-bearing lines are tab-indented
C9_Witness ==
    /\ pc = "parsed"
    /\ HasNoFieldLine(text)
    /\ LinesBeforeBlank(SplitLines(text)) >= 1
    /\ \A i \in 1..LinesBeforeBlank(SplitLines(text)) :
          HasColon(SplitLines(text)[i]) /\ SplitLines(text)[i][1] = "\t"

(* --------------------------------- C10 --------------------------------- *)

\* C10: no call enters the second branch: whenever its guard holds the first
\* branch was taken, and process_link without the second branch returns the
\* same result.
C10_SecondBranchDead ==
    pc = "linked" =>
        /\ link.branch # "second"
        /\ ~has_explicit_title /\ SecondGuard(target) => link.branch = "first"
        /\ link = process_link_one_branch(has_explicit_title, title, target)

C10_Witness ==
    pc = "linked" /\ ~has_explicit_title /\ SecondGuard(target) /\ link.branch = "first"

(* --------------------------------- C11 --------------------------------- *)

\* C11 as stated: after an html or dirhtml build whose sources include
\* psp-000000.rst, index.html exists in the output root and holds the same
\* text as the page rendered from PSP 0.
C11_IndexIsPspZero ==
    /\ call = "build"
    /\ pc = "done"
    /\ builder \in {"html", "dirhtml"}
    /\ Psp000000Rst \in sources
    => /\ IndexHtml \in DOMAIN outdir
       /\ outdir[IndexHtml] = Rendered(builder, Docname(Psp000000Rst))

\* the case C11 is about: the build is over and PSP 0's page was rendered
C11_Witness ==
    /\ call = "build"
    /\ pc = "done"
    /\ builder \in {"html", "dirhtml"}
    /\ Psp000000Rst \in sources
    /\ OutputFile(builder, Docname(Psp000000Rst)) \in DOMAIN outdir
    /\ outdir[OutputFile(builder, Docname(Psp000000Rst))] = Rendered(builder, Docname(Psp000000Rst))

====
